---- MODULE Spec2Model ----
(***************************************************************************)
(* Transaction manager of the Augment VIP cleaner                          *)
(* (scripts/common/transaction_manager.py): one TransactionManager, its    *)
(* journal directory, the target and backup files it restores, process     *)
(* crashes and the I/O failures the code catches or lets through.          *)
(***************************************************************************)
EXTENDS Integers, Sequences, FiniteSets, TLC

\* ------------------------------------------------------------------ bounds
\* Most operations held at one time by the manager and the journals of
\* other transactions.
MaxOps == 2
\* Most I/O failures injected into one call.
MaxFaults == 1
\* Last instant of the clock.
MaxClock == 2
\* Most recovery sweeps that die before they return.
MaxRestarts == 1

\* ------------------------------------------------------------- value sets
\* Python's None (current_transaction_id, backup_path).
None == "None"
\* Transaction ids: file <id>.json of the journal directory. IdOrder is the
\* order of the generated ids (their timestamps); CallerIds are the ids a
\* caller passes to begin_transaction.
IdOrder == <<"t1", "t2">>
Ids == { IdOrder[i] : i \in 1..Len(IdOrder) }
CallerIds == {"t1"}
\* Files the registered operations mutate, and their backup copies.
Targets == {"A", "B"}
Backups == {"X", "Y"}
Paths == Targets \cup Backups
\* File contents; Absent is a path with no file, Partial what an
\* interrupted copy leaves behind.
Absent == "absent"
Partial == "partial"
Contents == {"old", "new"}

OperationTypes == {"file_modify", "file_delete", "db_modify"}

\* TransactionOperation.__init__: completed starts False.
TransactionOperation(operation_type, target_path, backup_path) ==
    [operation_type |-> operation_type, target_path |-> target_path,
     backup_path |-> backup_path, completed |-> FALSE]

\* The operations callers register in this model.
OpInputs ==
    { TransactionOperation("file_modify", "A", "X"),
      TransactionOperation("db_modify", "A", "Y"),
      TransactionOperation("file_delete", "B", "Y"),
      TransactionOperation("file_modify", "B", None) }

\* TransactionOperation.to_dict / from_dict: field by field.
to_dict(op) ==
    [operation_type |-> op.operation_type, target_path |-> op.target_path,
     backup_path |-> op.backup_path, completed |-> op.completed]

from_dict(data) ==
    [operation_type |-> data.operation_type, target_path |-> data.target_path,
     backup_path |-> data.backup_path, completed |-> data.completed]

\* [op.to_dict() for op in self.operations]
ToDicts(ops) == [i \in 1..Len(ops) |-> to_dict(ops[i])]

\* [TransactionOperation.from_dict(op_data) for op_data in log_data['operations']]
FromDicts(data) == [i \in 1..Len(data) |-> from_dict(data[i])]

\* Mutant of Reversed: the batch is walked in registration order.
NotReversed(s) == s

\* reversed(seq)
Reversed(s) == [i \in 1..Len(s) |-> s[Len(s) + 1 - i]]

\* Mutant of IncompleteOps: the completed flag is not looked at.
EveryOp(ops) == ops

\* Mutant of IncompleteOps: a journal with one incomplete operation is rolled
\* back whole.
UnlessAllCompleted(ops) ==
    IF \E i \in 1..Len(ops) : ~ops[i].completed THEN ops ELSE <<>>

\* [op for op in operations if not op.completed]
RECURSIVE IncompleteOps(_)
IncompleteOps(ops) ==
    IF ops = <<>> THEN <<>>
    ELSE IF ~Head(ops).completed THEN <<Head(ops)>> \o IncompleteOps(Tail(ops))
         ELSE IncompleteOps(Tail(ops))

\* A journal file: absent, not parseable, or a parseable record.
NoFile ==
    [state |-> "absent", transaction_id |-> None, start_time |-> None,
     operations |-> <<>>]
MalformedFile ==
    [state |-> "malformed", transaction_id |-> None, start_time |-> None,
     operations |-> <<>>]

\* Subsets of S with at most k elements.
RECURSIVE SubsetsUpTo(_, _)
SubsetsUpTo(S, k) ==
    IF k = 0 THEN {{}}
    ELSE LET smaller == SubsetsUpTo(S, k - 1)
         IN smaller \cup UNION { { T \cup {x} : x \in S } : T \in smaller }

\* ------------------------------------------------------------------ state
VARIABLES
    current_transaction_id,  \* TransactionManager.current_transaction_id
    operations,              \* TransactionManager.operations
    logs,                    \* transaction_log_dir: id -> file <id>.json
    fs,                      \* target and backup files: path -> content
    last,                    \* the last call: its outcome and what it did
    wrapper,                 \* the with_transaction wrapper: position, outcome
    now,                     \* the clock read by datetime.utcnow()
    recovery                 \* processes inside recover_incomplete_transactions

vars == <<current_transaction_id, operations, logs, fs, last, wrapper, now, recovery>>

\* Where a call of a with_transaction-wrapped function stands: pc "out" (no
\* call running) or "work" (inside func); outcome is how the last finished
\* call ended: "returned", or the exception that left the wrapper ("E" is the
\* error raised by func).
Wrapper(pc, outcome) == [pc |-> pc, outcome |-> outcome]

\* What a call reports: result is the returned value or the exception
\* raised; id the transaction it acted on; ops the TransactionOperation
\* objects it handled, as it left them (commit, rollback: the manager's list;
\* recovery: the operations parsed from the journals, in reading order; a
\* crash: the list the dead process held); attempts the calls of
\* _rollback_operation it made, in order; recovered the list
\* recover_incomplete_transactions returned; faults the I/O failures it met;
\* read the journal files recover_incomplete_transactions parsed, in order.
Outcome(call, result, id, ops, attempts, recovered, faults) ==
    [call |-> call, result |-> result, id |-> id, ops |-> ops,
     attempts |-> attempts, recovered |-> recovered, faults |-> faults,
     read |-> <<>>]

Attempt(id, op, ok) ==
    [id |-> id, target_path |-> op.target_path, backup_path |-> op.backup_path, ok |-> ok]

\* log_data of _save_transaction_log: start_time is the clock at the time of
\* the write.
LogData(tid, ops) ==
    [state |-> "valid", transaction_id |-> tid, start_time |-> now,
     operations |-> ToDicts(ops)]

\* The processes that run recover_incomplete_transactions step by step.
Procs == {"p", "q"}

\* A process outside recover_incomplete_transactions, and one inside it: pc
\* is its position in the loop, todo the files of its glob still to visit,
\* file the journal it holds, pending the operations it has still to
\* restore (incomplete tells whether incomplete_ops was non-empty),
\* recovered its list of recovered ids.
NoSweep ==
    [pc |-> "idle", todo |-> <<>>, file |-> None, transaction_id |-> None,
     pending |-> <<>>, incomplete |-> FALSE, recovered |-> <<>>]

\* No process has entered recover_incomplete_transactions yet: start is the
\* journal directory and the files as the first sweep found them (started
\* tells that one began), torn the
\* targets written by two copies of different backups since their last
\* truncation, restarts the sweeps that died and died the position of the
\* last one that did.
NoRecovery ==
    [procs |-> [p \in Procs |-> NoSweep], started |-> FALSE,
     start |-> [logs |-> [i \in Ids |-> NoFile], fs |-> [f \in Paths |-> Absent]],
     torn |-> {}, restarts |-> 0, died |-> "none"]

\* TransactionManager.__init__ on a fresh journal directory.
Init ==
    /\ current_transaction_id = None
    /\ operations = <<>>
    /\ logs = [i \in Ids |-> NoFile]
    /\ fs = [p \in Paths |-> IF p \in Targets THEN "old" ELSE Absent]
    /\ last = Outcome("init", "ok", None, <<>>, <<>>, <<>>, {})
    /\ wrapper = Wrapper("out", "none")
    /\ now = 0
    /\ recovery = NoRecovery

\* ------------------------------------------------------------ I/O failures
\* A failure point of a call: <<journal id, kind, index>>. "open": the
\* journal cannot be opened for writing; "write": the write stops after the
\* truncation; "unlink": the journal cannot be deleted; "read": it cannot be
\* read; "copy_src": shutil.copy2 fails before touching the target;
\* "copy_dst": it fails after truncating the target. index is the position
\* of the _rollback_operation call within its batch (0 otherwise).
Fault(id, kind, i) == <<id, kind, i>>

\* _get_transaction_log_path: the file <current_transaction_id>.json, here
\* the key of logs.
get_transaction_log_path(tid) == tid

\* _save_transaction_log: rewrite the journal of the current transaction from
\* the in-memory state; open(..., 'w') truncates before json.dump writes.
save_transaction_log(tid, ops, lg, F) ==
    IF tid = None
    THEN [raised |-> FALSE, logs |-> lg]
    ELSE LET log_file == get_transaction_log_path(tid)
         IN IF Fault(tid, "open", 0) \in F
            THEN [raised |-> TRUE, logs |-> lg]
            ELSE IF Fault(tid, "write", 0) \in F
            THEN [raised |-> TRUE, logs |-> [lg EXCEPT ![log_file] = MalformedFile]]
            ELSE [raised |-> FALSE,
                  logs |-> [lg EXCEPT ![log_file] = LogData(tid, ops)]]

\* Mutant of copy2: the arguments are swapped, the target overwrites the backup.
copy2_swapped(files, src, dst, fault) ==
    IF fault = "copy_src" THEN [ok |-> FALSE, fs |-> files]
    ELSE IF fault = "copy_dst"
    THEN [ok |-> FALSE, fs |-> [files EXCEPT ![src] = Partial]]
    ELSE [ok |-> TRUE, fs |-> [files EXCEPT ![src] = files[dst]]]

\* shutil.copy2(backup_path, target_path) inside the try of
\* _rollback_operation: TRUE when the copy completed.
copy2(files, src, dst, fault) ==
    IF fault = "copy_src" THEN [ok |-> FALSE, fs |-> files]
    ELSE IF fault = "copy_dst"
    THEN [ok |-> FALSE, fs |-> [files EXCEPT ![dst] = Partial]]
    ELSE [ok |-> TRUE, fs |-> [files EXCEPT ![dst] = files[src]]]

\* Mutant of rollback_operation: an operation without a usable backup has
\* its target removed.
rollback_operation_clobbers(operation, files, fault) ==
    IF operation.backup_path # None /\ files[operation.backup_path] # Absent
    THEN copy2(files, operation.backup_path, operation.target_path, fault)
    ELSE [ok |-> FALSE, fs |-> [files EXCEPT ![operation.target_path] = Absent]]

\* Mutant of rollback_operation: only file_modify operations are restored.
rollback_operation_modify_only(operation, files, fault) ==
    IF operation.operation_type = "file_modify" /\ operation.backup_path # None
    THEN IF files[operation.backup_path] # Absent
         THEN copy2(files, operation.backup_path, operation.target_path, fault)
         ELSE [ok |-> FALSE, fs |-> files]
    ELSE [ok |-> FALSE, fs |-> files]

\* _rollback_operation: restore one operation from its backup.
rollback_operation(operation, files, fault) ==
    IF operation.operation_type = "file_modify" /\ operation.backup_path # None
    THEN IF files[operation.backup_path] # Absent
         THEN copy2(files, operation.backup_path, operation.target_path, fault)
         ELSE [ok |-> FALSE, fs |-> files]
    ELSE IF operation.operation_type = "file_delete" /\ operation.backup_path # None
    THEN IF files[operation.backup_path] # Absent
         THEN copy2(files, operation.backup_path, operation.target_path, fault)
         ELSE [ok |-> FALSE, fs |-> files]
    ELSE IF operation.operation_type = "db_modify" /\ operation.backup_path # None
    THEN IF files[operation.backup_path] # Absent
         THEN copy2(files, operation.backup_path, operation.target_path, fault)
         ELSE [ok |-> FALSE, fs |-> files]
    ELSE [ok |-> FALSE, fs |-> files]

\* The failure injected into the i-th _rollback_operation of journal id.
CopyFault(F, id, i) ==
    IF Fault(id, "copy_src", i) \in F THEN "copy_src"
    ELSE IF Fault(id, "copy_dst", i) \in F THEN "copy_dst"
    ELSE "none"

\* Mutant of RollbackEach: the loop ends at the first failed restoration
\* (break after success = False).
RECURSIVE RollbackEachStops(_, _, _, _, _)
RollbackEachStops(seq, i, files, F, id) ==
    IF i > Len(seq)
    THEN [fs |-> files, attempts |-> <<>>, success |-> TRUE]
    ELSE LET r == rollback_operation(seq[i], files, CopyFault(F, id, i))
             rest == RollbackEachStops(seq, i + 1, r.fs, F, id)
         IN IF r.ok
            THEN [fs |-> rest.fs,
                  attempts |-> <<Attempt(id, seq[i], r.ok)>> \o rest.attempts,
                  success |-> rest.success]
            ELSE [fs |-> r.fs, attempts |-> <<Attempt(id, seq[i], r.ok)>>,
                  success |-> FALSE]

\* Mutant of RollbackEach: success is the result of the last call only
\* (success = self._rollback_operation(operation)).
RECURSIVE RollbackEachLastWins(_, _, _, _, _)
RollbackEachLastWins(seq, i, files, F, id) ==
    IF i > Len(seq)
    THEN [fs |-> files, attempts |-> <<>>, success |-> TRUE]
    ELSE LET r == rollback_operation(seq[i], files, CopyFault(F, id, i))
             rest == RollbackEachLastWins(seq, i + 1, r.fs, F, id)
         IN [fs |-> rest.fs,
             attempts |-> <<Attempt(id, seq[i], r.ok)>> \o rest.attempts,
             success |-> IF i = Len(seq) THEN r.ok ELSE rest.success]

\* for operation in seq: _rollback_operation(operation), from position i on;
\* success is False as soon as one call returned False.
RECURSIVE RollbackEach(_, _, _, _, _)
RollbackEach(seq, i, files, F, id) ==
    IF i > Len(seq)
    THEN [fs |-> files, attempts |-> <<>>, success |-> TRUE]
    ELSE LET r == rollback_operation(seq[i], files, CopyFault(F, id, i))
             rest == RollbackEach(seq, i + 1, r.fs, F, id)
         IN [fs |-> rest.fs,
             attempts |-> <<Attempt(id, seq[i], r.ok)>> \o rest.attempts,
             success |-> r.ok /\ rest.success]

\* The copies a batch would start: the failure points of its copies.
CopyPoints(seq, files, id) ==
    { Fault(id, k, i) : k \in {"copy_src", "copy_dst"},
                        i \in { j \in 1..Len(seq) :
                                  /\ seq[j].backup_path # None
                                  /\ files[seq[j].backup_path] # Absent } }

\* The failures one call can meet: none when io is FALSE (the disk works),
\* else at most MaxFaults of its failure points, no two on the same copy.
FaultSets(points, io) ==
    IF ~io THEN {{}}
    ELSE { F \in SubsetsUpTo(points, MaxFaults) :
            \A f \in F : f[2] = "copy_src" => Fault(f[1], "copy_dst", f[3]) \notin F }

\* The failure points of one _save_transaction_log: either fails the call.
SavePoints(tid) == {Fault(tid, "open", 0), Fault(tid, "write", 0)}
SaveFaults(tid, io) == IF ~io THEN {{}} ELSE {{}} \cup { {f} : f \in SavePoints(tid) }

\* A call that touched no file and restored nothing.
Plain(call, result, id) == Outcome(call, result, id, <<>>, <<>>, <<>>, {})

\* datetime.now().strftime(...): the generated id is the next timestamp, which
\* names no existing journal.
GeneratedIds ==
    LET free == { i \in 1..Len(IdOrder) : logs[IdOrder[i]].state = "absent" }
    IN { IdOrder[i] : i \in { j \in free : \A k \in free : j <= k } }

\* Operations held by the manager and by the journals of other transactions.
RECURSIVE SumLen(_, _)
SumLen(S, lg) ==
    IF S = {} THEN 0
    ELSE LET i == CHOOSE x \in S : TRUE
         IN Len(lg[i].operations) + SumLen(S \ {i}, lg)
HeldOps == Len(operations) + SumLen(Ids \ {current_transaction_id}, logs)

\* ------------------------------------------------------------- the manager
\* Mutant of begin_transaction: the "already in progress" check is missing.
begin_transaction_unguarded(transaction_id, io) ==
    \E tid \in (IF transaction_id = None THEN GeneratedIds ELSE {transaction_id}) :
    \E F \in SaveFaults(tid, io) :
        LET saved == save_transaction_log(tid, <<>>, logs, F)
        IN /\ current_transaction_id' = tid
           /\ operations' = <<>>
           /\ logs' = saved.logs
           /\ fs' = fs
           /\ last' = Outcome("begin_transaction",
                              IF saved.raised THEN "OSError" ELSE tid,
                              tid, <<>>, <<>>, <<>>, F)

\* Mutant of begin_transaction: the journal is not written before returning
\* (the call of _save_transaction_log is missing).
begin_transaction_unsaved(transaction_id, io) ==
    IF current_transaction_id # None
    THEN /\ last' = Plain("begin_transaction", "RuntimeError",
                          current_transaction_id)
         /\ UNCHANGED <<current_transaction_id, operations, logs, fs>>
    ELSE \E tid \in (IF transaction_id = None THEN GeneratedIds ELSE {transaction_id}) :
            /\ current_transaction_id' = tid
            /\ operations' = <<>>
            /\ UNCHANGED <<logs, fs>>
            /\ last' = Outcome("begin_transaction", tid, tid, <<>>, <<>>, <<>>, {})

\* begin_transaction(transaction_id)
begin_transaction(transaction_id, io) ==
    IF current_transaction_id # None
    THEN /\ last' = Plain("begin_transaction", "RuntimeError",
                          current_transaction_id)
         /\ UNCHANGED <<current_transaction_id, operations, logs, fs>>
    ELSE \E tid \in (IF transaction_id = None THEN GeneratedIds ELSE {transaction_id}) :
         \E F \in SaveFaults(tid, io) :
            LET saved == save_transaction_log(tid, <<>>, logs, F)
            IN /\ current_transaction_id' = tid
               /\ operations' = <<>>
               /\ logs' = saved.logs
               /\ fs' = fs
               /\ last' = Outcome("begin_transaction",
                                  IF saved.raised THEN "OSError" ELSE tid,
                                  tid, <<>>, <<>>, <<>>, F)

\* add_operation(operation)
add_operation(operation, io) ==
    IF current_transaction_id = None
    THEN /\ last' = Plain("add_operation", "RuntimeError", None)
         /\ UNCHANGED <<current_transaction_id, operations, logs, fs>>
    ELSE /\ HeldOps < MaxOps
         /\ \E F \in SaveFaults(current_transaction_id, io) :
            LET appended == Append(operations, operation)
                saved == save_transaction_log(current_transaction_id, appended, logs, F)
            IN /\ operations' = appended
               /\ logs' = saved.logs
               /\ UNCHANGED <<current_transaction_id, fs>>
               /\ last' = Outcome("add_operation",
                                  IF saved.raised THEN "OSError" ELSE "None",
                                  current_transaction_id, <<>>, <<>>, <<>>, F)

\* Mutant of MarkCompleted: the loop stops before the last operation.
MarkAllButLast(ops) ==
    [i \in 1..Len(ops) |-> [ops[i] EXCEPT !.completed = (i < Len(ops))]]

\* for operation in self.operations: operation.completed = True
MarkCompleted(ops) == [i \in 1..Len(ops) |-> [ops[i] EXCEPT !.completed = TRUE]]

\* commit_transaction()
commit_transaction(io) ==
    IF current_transaction_id = None
    THEN /\ last' = Plain("commit_transaction", "RuntimeError", None)
         /\ UNCHANGED <<current_transaction_id, operations, logs, fs>>
    ELSE \E F \in SaveFaults(current_transaction_id, io) \cup
                   (IF io THEN {{Fault(current_transaction_id, "unlink", 0)}} ELSE {}) :
         LET tid == current_transaction_id
             marked == MarkCompleted(operations)
             saved == save_transaction_log(tid, marked, logs, F)
             log_file == get_transaction_log_path(tid)
             failed == \/ saved.raised
                       \/ /\ saved.logs[log_file].state # "absent"
                          /\ Fault(tid, "unlink", 0) \in F
         IN /\ fs' = fs
            /\ last' = Outcome("commit_transaction",
                               IF failed THEN "False" ELSE "True",
                               tid, marked, <<>>, <<>>, F)
            /\ IF failed
               THEN /\ operations' = marked
                    /\ logs' = saved.logs
                    /\ UNCHANGED current_transaction_id
               ELSE /\ logs' = [saved.logs EXCEPT ![log_file] = NoFile]
                    /\ current_transaction_id' = None
                    /\ operations' = <<>>

\* rollback_transaction()
rollback_transaction(io) ==
    IF current_transaction_id = None
    THEN /\ last' = Plain("rollback_transaction", "RuntimeError", None)
         /\ UNCHANGED <<current_transaction_id, operations, logs, fs>>
    ELSE LET tid == current_transaction_id
             log_file == get_transaction_log_path(tid)
             batch == Reversed(operations)
             points == CopyPoints(batch, fs, tid) \cup
                       (IF logs[log_file].state # "absent"
                        THEN {Fault(tid, "unlink", 0)} ELSE {})
         IN \E F \in FaultSets(points, io) :
            LET done == RollbackEach(batch, 1, fs, F, tid)
                raised == /\ logs[log_file].state # "absent"
                          /\ Fault(tid, "unlink", 0) \in F
            IN /\ fs' = done.fs
               /\ last' = Outcome("rollback_transaction",
                                  IF raised THEN "OSError"
                                  ELSE IF done.success THEN "True" ELSE "False",
                                  tid, operations, done.attempts, <<>>, F)
               /\ IF raised
                  THEN UNCHANGED <<current_transaction_id, operations, logs>>
                  ELSE /\ logs' = [logs EXCEPT ![log_file] = NoFile]
                       /\ current_transaction_id' = None
                       /\ operations' = <<>>

\* self.transaction_log_dir.glob("*.json"): the existing files, in any order.
GlobOrders ==
    LET present == { i \in Ids : logs[i].state # "absent" }
    IN { o \in [1..Cardinality(present) -> present] :
            \A a, b \in 1..Cardinality(present) : a # b => o[a] # o[b] }

\* Mutant of recover_one: the journal is kept after its operations were
\* rolled back.
recover_one_keeps(log_file, st, F) ==
    LET log_data == st.logs[log_file]
    IN IF log_data.state # "valid" \/ Fault(log_file, "read", 0) \in F
       THEN st
       ELSE LET transaction_id == log_data.transaction_id
                ops == FromDicts(log_data.operations)
                incomplete_ops == IncompleteOps(ops)
                done == RollbackEach(Reversed(incomplete_ops), 1, st.fs, F, log_file)
                read == [st EXCEPT !.ops = st.ops \o ops,
                                   !.read = Append(st.read, log_file)]
            IN IF incomplete_ops # <<>>
               THEN [read EXCEPT !.fs = done.fs,
                                 !.attempts = st.attempts \o done.attempts,
                                 !.recovered = Append(st.recovered, transaction_id)]
               ELSE [read EXCEPT !.logs[log_file] = NoFile]

\* Mutant of recover_one: the incomplete operations are restored in journal
\* order (reversed() is missing).
recover_one_forward(log_file, st, F) ==
    LET log_data == st.logs[log_file]
    IN IF log_data.state # "valid" \/ Fault(log_file, "read", 0) \in F
       THEN st
       ELSE LET transaction_id == log_data.transaction_id
                ops == FromDicts(log_data.operations)
                incomplete_ops == IncompleteOps(ops)
                done == RollbackEach(incomplete_ops, 1, st.fs, F, log_file)
                read == [st EXCEPT !.ops = st.ops \o ops,
                                   !.read = Append(st.read, log_file)]
                after == IF incomplete_ops # <<>>
                         THEN [read EXCEPT !.fs = done.fs,
                                           !.attempts = st.attempts \o done.attempts,
                                           !.recovered = Append(st.recovered, transaction_id)]
                         ELSE read
            IN IF Fault(log_file, "unlink", 0) \in F
               THEN after
               ELSE [after EXCEPT !.logs[log_file] = NoFile]

\* The body of the for loop of recover_incomplete_transactions for one
\* file: st carries logs, fs, the operations and the files read so far,
\* attempts and recovered.
recover_one(log_file, st, F) ==
    LET log_data == st.logs[log_file]
    IN IF log_data.state # "valid" \/ Fault(log_file, "read", 0) \in F
       THEN st
       ELSE LET transaction_id == log_data.transaction_id
                ops == FromDicts(log_data.operations)
                incomplete_ops == IncompleteOps(ops)
                done == RollbackEach(Reversed(incomplete_ops), 1, st.fs, F, log_file)
                read == [st EXCEPT !.ops = st.ops \o ops,
                                   !.read = Append(st.read, log_file)]
                after == IF incomplete_ops # <<>>
                         THEN [read EXCEPT !.fs = done.fs,
                                           !.attempts = st.attempts \o done.attempts,
                                           !.recovered = Append(st.recovered, transaction_id)]
                         ELSE read
            IN IF Fault(log_file, "unlink", 0) \in F
               THEN after
               ELSE [after EXCEPT !.logs[log_file] = NoFile]

\* Mutant of RecoverEach: a file that cannot be processed ends the sweep
\* (break instead of continue).
RECURSIVE RecoverUntilBad(_, _, _, _)
RecoverUntilBad(order, k, st, F) ==
    IF k > Len(order) THEN st
    ELSE IF st.logs[order[k]].state # "valid" THEN st
    ELSE RecoverUntilBad(order, k + 1, recover_one(order[k], st, F), F)

\* for log_file in glob: the loop of recover_incomplete_transactions.
RECURSIVE RecoverEach(_, _, _, _)
RecoverEach(order, k, st, F) ==
    IF k > Len(order) THEN st
    ELSE RecoverEach(order, k + 1, recover_one(order[k], st, F), F)

\* The failure points a recovery sweep can meet.
RecoverPoints ==
    UNION { LET ops == FromDicts(logs[i].operations)
            IN {Fault(i, "read", 0), Fault(i, "unlink", 0)} \cup
               CopyPoints(Reversed(IncompleteOps(ops)), fs, i)
            : i \in { j \in Ids : logs[j].state = "valid" } }

\* recover_incomplete_transactions()
recover_incomplete_transactions(io) ==
    \E order \in GlobOrders : \E F \in FaultSets(RecoverPoints, io) :
        LET st == RecoverEach(order, 1,
                     [logs |-> logs, fs |-> fs, ops |-> <<>>, attempts |-> <<>>,
                      recovered |-> <<>>, read |-> <<>>], F)
        IN /\ logs' = st.logs
           /\ fs' = st.fs
           /\ UNCHANGED <<current_transaction_id, operations>>
           /\ last' = [Outcome("recover_incomplete_transactions", "list", None,
                               st.ops, st.attempts, st.recovered, F)
                          EXCEPT !.read = st.read]

\* --------------------------------------------------------- the environment
\* The caller's mutation of a target (clean_database_file's DELETEs).
Mutate(target, content) ==
    /\ fs[target] # content
    /\ fs' = [fs EXCEPT ![target] = content]
    /\ UNCHANGED <<current_transaction_id, operations, logs, wrapper, now, recovery>>
    /\ last' = Plain("env", "ok", None)

\* The backup provider: backup_file copies the file to its backup path.
Backup(target, backup) ==
    /\ fs[target] \in Contents
    /\ fs[backup] # fs[target]
    /\ fs' = [fs EXCEPT ![backup] = fs[target]]
    /\ UNCHANGED <<current_transaction_id, operations, logs, wrapper, now, recovery>>
    /\ last' = Plain("env", "ok", None)

\* A backup file is lost.
RemoveFile(path) ==
    /\ fs[path] # Absent
    /\ fs' = [fs EXCEPT ![path] = Absent]
    /\ UNCHANGED <<current_transaction_id, operations, logs, wrapper, now, recovery>>
    /\ last' = Plain("env", "ok", None)

\* The process dies between two calls and a new one constructs its manager:
\* __init__ sets current_transaction_id = None and operations = [].
Crash ==
    /\ current_transaction_id' = None
    /\ operations' = <<>>
    /\ UNCHANGED <<logs, fs, wrapper, now, recovery>>
    /\ last' = Outcome("crash", "between_calls", current_transaction_id,
                       operations, <<>>, <<>>, {})

\* The process dies inside the journal write of begin_transaction, after
\* open(..., 'w') created the file and before json.dump finished.
CrashInBegin(transaction_id) ==
    /\ current_transaction_id = None
    /\ \E tid \in (IF transaction_id = None THEN GeneratedIds ELSE {transaction_id}) :
        /\ logs' = [logs EXCEPT ![get_transaction_log_path(tid)] = MalformedFile]
        /\ last' = Plain("crash", "begin_transaction.write", tid)
    /\ UNCHANGED <<current_transaction_id, operations, fs, wrapper, now, recovery>>

\* The process dies inside the journal write of add_operation, after
\* open(..., 'w') truncated the file and before json.dump finished.
CrashInAddOperation(operation) ==
    /\ current_transaction_id # None
    /\ HeldOps < MaxOps
    /\ logs' = [logs EXCEPT ![get_transaction_log_path(current_transaction_id)] =
                                MalformedFile]
    /\ current_transaction_id' = None
    /\ operations' = <<>>
    /\ UNCHANGED <<fs, wrapper, now, recovery>>
    /\ last' = Outcome("crash", "add_operation.write", current_transaction_id,
                       operations, <<>>, <<>>, {})

\* The process dies inside commit_transaction: in the journal write, or
\* after it and before the unlink.
CrashInCommit(point) ==
    /\ current_transaction_id # None
    /\ logs' = [logs EXCEPT ![get_transaction_log_path(current_transaction_id)] =
                    IF point = "write" THEN MalformedFile
                    ELSE LogData(current_transaction_id, MarkCompleted(operations))]
    /\ current_transaction_id' = None
    /\ operations' = <<>>
    /\ UNCHANGED <<fs, wrapper, now, recovery>>
    /\ last' = Outcome("crash", "commit_transaction." \o point,
                       current_transaction_id, operations, <<>>, <<>>, {})

\* Time passes: the clock advances between two calls.
Tick ==
    /\ now < MaxClock
    /\ now' = now + 1
    /\ UNCHANGED <<current_transaction_id, operations, logs, fs, wrapper, recovery>>
    /\ last' = Plain("env", "ok", None)

\* The calls of one process on a working disk (io = FALSE) or on a disk
\* whose operations can fail (io = TRUE).
Calls(io) ==
    \/ \E id \in CallerIds \cup {None} :
          begin_transaction(id, io) /\ UNCHANGED <<wrapper, now, recovery>>
    \/ \E op \in OpInputs : add_operation(op, io) /\ UNCHANGED <<wrapper, now, recovery>>
    \/ commit_transaction(io) /\ UNCHANGED <<wrapper, now, recovery>>
    \/ rollback_transaction(io) /\ UNCHANGED <<wrapper, now, recovery>>
    \/ recover_incomplete_transactions(io) /\ UNCHANGED <<wrapper, now, recovery>>

Environment ==
    \/ \E t \in Targets, c \in Contents : Mutate(t, c)
    \/ \E t \in Targets, b \in Backups : Backup(t, b)
    \/ \E b \in Backups : RemoveFile(b)

Crashes ==
    \/ Crash
    \/ \E id \in CallerIds \cup {None} : CrashInBegin(id)
    \/ \E op \in OpInputs : CrashInAddOperation(op)
    \/ \E point \in {"write", "unlink"} : CrashInCommit(point)

\* Processes that can die at any point, on a working disk.
Next == Calls(FALSE) \/ Environment \/ Crashes

Spec == Init /\ [][Next]_vars

\* One process that does not die, on a disk whose operations can fail.
NextIO == Calls(TRUE) \/ Environment

SpecIO == Init /\ [][NextIO]_vars

\* One process on a working disk, and the clock.
NextT == Calls(FALSE) \/ Tick

SpecT == Init /\ [][NextT]_vars

\* ------------------------------------------------------- with_transaction
\* Exceptions a call of the manager lets through.
Raised == {"RuntimeError", "OSError"}

\* wrapper(): tm.begin_transaction() is called before the try; what it
\* raises leaves the wrapper.
WrapperBegin(io) ==
    /\ wrapper.pc = "out"
    /\ UNCHANGED <<now, recovery>>
    /\ begin_transaction(None, io)
    /\ wrapper' = IF last'.result \in Raised
                  THEN Wrapper("out", last'.result)
                  ELSE Wrapper("work", "none")

\* func(*args, **kwargs) registers an operation (add_file_operation). When
\* add_operation raises, func catches the exception and goes on, or lets it
\* through: WrapperRaise is the step that follows.
WrapperWork(operation, io) ==
    /\ wrapper.pc = "work"
    /\ add_operation(operation, io)
    /\ UNCHANGED <<wrapper, now, recovery>>

\* func returned: tm.commit_transaction(), whose result is dropped, then
\* return result. A RuntimeError of commit_transaction (no transaction in
\* progress) is caught by the except branch, whose rollback_transaction
\* raises it again.
WrapperReturn(io) ==
    /\ wrapper.pc = "work"
    /\ UNCHANGED <<now, recovery>>
    /\ commit_transaction(io)
    /\ wrapper' = IF last'.result \in Raised
                  THEN Wrapper("out", last'.result)
                  ELSE Wrapper("out", "returned")

\* func raised E: the except branch calls tm.rollback_transaction() and then
\* raise e; an exception of rollback_transaction leaves the wrapper in its
\* place.
WrapperRaise(io) ==
    /\ wrapper.pc = "work"
    /\ UNCHANGED <<now, recovery>>
    /\ rollback_transaction(io)
    /\ wrapper' = IF last'.result \in Raised
                  THEN Wrapper("out", last'.result)
                  ELSE Wrapper("out", "E")

\* Calls of wrapped functions on the global manager, one after the other, on
\* a disk whose operations can fail.
with_transaction(io) ==
    \/ WrapperBegin(io)
    \/ \E op \in OpInputs : WrapperWork(op, io)
    \/ WrapperReturn(io)
    \/ WrapperRaise(io)

NextW == with_transaction(TRUE) \/ Environment

SpecW == Init /\ [][NextW]_vars

\* ------------------------------- recovery, one statement after the other
\* recover_incomplete_transactions of process p, statement by statement:
\* what another process, or the death of p, can fall between.
Sweep(p) == recovery.procs[p]

\* A step of a sweep: the manager of the dead writer is not involved.
SweepStep ==
    /\ UNCHANGED <<current_transaction_id, operations, wrapper, now>>
    /\ last' = Plain("sweep", "step", None)

\* The journals a glob of directory lg can yield, in any order.
GlobOrdersOf(lg) ==
    LET present == { i \in Ids : lg[i].state # "absent" }
    IN { o \in [1..Cardinality(present) -> present] :
            \A a, b \in 1..Cardinality(present) : a # b => o[a] # o[b] }

\* recovered = []; glob("*.json") lists the directory when the loop starts.
\* The process is a new one: the writer of the journals is dead.
SweepGlob(p) ==
    /\ Sweep(p).pc = "idle"
    /\ current_transaction_id = None
    /\ \E order \in GlobOrdersOf(logs) :
          recovery' = [recovery EXCEPT
                          !.procs[p] = [NoSweep EXCEPT !.pc = "for", !.todo = order],
                          !.started = TRUE,
                          !.start = IF recovery.started THEN @
                                    ELSE [logs |-> logs, fs |-> fs]]
    /\ UNCHANGED <<logs, fs>>
    /\ SweepStep

\* Mutant of SweepRead: the journal is deleted as soon as it was read, before
\* its operations are restored.
SweepReadUnlinks(p) ==
    /\ Sweep(p).pc = "for"
    /\ Sweep(p).todo # <<>>
    /\ LET log_file == Head(Sweep(p).todo)
           log_data == logs[log_file]
       IN IF log_data.state # "valid"
          THEN /\ recovery' = [recovery EXCEPT !.procs[p].todo = Tail(@)]
               /\ UNCHANGED logs
          ELSE LET incomplete_ops == IncompleteOps(FromDicts(log_data.operations))
               IN /\ recovery' = [recovery EXCEPT !.procs[p] =
                        [@ EXCEPT !.pc = "rollback", !.todo = Tail(@),
                                  !.file = log_file,
                                  !.transaction_id = log_data.transaction_id,
                                  !.pending = Reversed(incomplete_ops),
                                  !.incomplete = (incomplete_ops # <<>>)]]
                  /\ logs' = [logs EXCEPT ![log_file] = NoFile]
    /\ UNCHANGED fs
    /\ SweepStep

\* The next file of the loop is opened and parsed, and its incomplete
\* operations are listed. A file that is gone (another process deleted it
\* since the glob) or that does not parse raises: except Exception, continue.
SweepRead(p) ==
    /\ Sweep(p).pc = "for"
    /\ Sweep(p).todo # <<>>
    /\ LET log_file == Head(Sweep(p).todo)
           log_data == logs[log_file]
       IN IF log_data.state # "valid"
          THEN recovery' = [recovery EXCEPT !.procs[p].todo = Tail(@)]
          ELSE LET incomplete_ops == IncompleteOps(FromDicts(log_data.operations))
               IN recovery' = [recovery EXCEPT !.procs[p] =
                     [@ EXCEPT !.pc = "rollback", !.todo = Tail(@),
                               !.file = log_file,
                               !.transaction_id = log_data.transaction_id,
                               !.pending = Reversed(incomplete_ops),
                               !.incomplete = (incomplete_ops # <<>>)]]
    /\ UNCHANGED <<logs, fs>>
    /\ SweepStep

\* The processes other than p that are inside a copy to target t.
CopyingTo(t, p) ==
    { q \in Procs \ {p} : /\ Sweep(q).pc = "copy"
                          /\ Head(Sweep(q).pending).target_path = t }

\* self._rollback_operation(operation) for the next operation of
\* reversed(incomplete_ops). With a usable backup shutil.copy2 opens the
\* target for writing, which truncates it; the target is torn when a copy of
\* a different content is under way. Without one the call returns False.
SweepRollback(p) ==
    /\ Sweep(p).pc = "rollback"
    /\ Sweep(p).pending # <<>>
    /\ LET operation == Head(Sweep(p).pending)
           t == operation.target_path
           r == rollback_operation(operation, fs, "none")
       IN IF r.ok
          THEN /\ fs' = rollback_operation(operation, fs, "copy_dst").fs
               /\ recovery' = [recovery EXCEPT
                     !.procs[p].pc = "copy",
                     !.torn = IF \E q \in CopyingTo(t, p) :
                                    fs[Head(Sweep(q).pending).backup_path]
                                        # fs[operation.backup_path]
                              THEN @ \cup {t} ELSE @ \ {t}]
          ELSE /\ fs' = r.fs
               /\ recovery' = [recovery EXCEPT !.procs[p].pending = Tail(@)]
    /\ UNCHANGED logs
    /\ SweepStep

\* shutil.copy2 wrote its last byte. While another copy to the same target
\* is under way the content is not settled; a torn target holds the content
\* of one of the backups or a mix of them; else it holds the backup's.
SweepCopied(p) ==
    /\ Sweep(p).pc = "copy"
    /\ LET operation == Head(Sweep(p).pending)
           t == operation.target_path
       IN /\ IF CopyingTo(t, p) # {}
             THEN UNCHANGED fs
             ELSE IF t \in recovery.torn
             THEN \E c \in {Partial} \cup ({ fs[b] : b \in Backups } \ {Absent}) :
                     fs' = [fs EXCEPT ![t] = c]
             ELSE fs' = rollback_operation(operation, fs, "none").fs
          /\ recovery' = [recovery EXCEPT
                !.procs[p] = [@ EXCEPT !.pc = "rollback", !.pending = Tail(@)],
                !.torn = IF CopyingTo(t, p) = {} THEN @ \ {t} ELSE @]
    /\ UNCHANGED logs
    /\ SweepStep

\* After the last _rollback_operation: recovered.append(transaction_id) when
\* incomplete_ops was not empty, then log_file.unlink(). The unlink of a file
\* that is gone raises FileNotFoundError: except Exception, continue.
SweepUnlink(p) ==
    /\ Sweep(p).pc = "rollback"
    /\ Sweep(p).pending = <<>>
    /\ recovery' = [recovery EXCEPT !.procs[p] =
          [@ EXCEPT !.pc = "for", !.file = None, !.transaction_id = None,
                    !.incomplete = FALSE,
                    !.recovered = IF Sweep(p).incomplete
                                  THEN Append(@, Sweep(p).transaction_id) ELSE @]]
    /\ logs' = IF logs[Sweep(p).file].state = "absent" THEN logs
               ELSE [logs EXCEPT ![Sweep(p).file] = NoFile]
    /\ UNCHANGED fs
    /\ SweepStep

\* The loop is over: return recovered.
SweepReturn(p) ==
    /\ Sweep(p).pc = "for"
    /\ Sweep(p).todo = <<>>
    /\ recovery' = [recovery EXCEPT !.procs[p].pc = "done"]
    /\ UNCHANGED <<logs, fs>>
    /\ SweepStep

\* The process dies inside recover_incomplete_transactions: what it wrote
\* stays on the disk, its list is lost, and the next process starts the
\* sweep again.
SweepCrash(p) ==
    /\ Sweep(p).pc \notin {"idle", "done"}
    /\ recovery.restarts < MaxRestarts
    /\ recovery' = [recovery EXCEPT !.procs[p] = NoSweep,
                                    !.restarts = @ + 1,
                                    !.died = Sweep(p).pc]
    /\ UNCHANGED <<logs, fs>>
    /\ SweepStep

\* One statement of the sweep of process p.
SweepSteps(p) ==
    \/ SweepGlob(p)
    \/ SweepRead(p)
    \/ SweepRollback(p)
    \/ SweepCopied(p)
    \/ SweepUnlink(p)
    \/ SweepReturn(p)

\* What precedes a recovery: a writer registers operations and dies, the
\* caller backs the targets up and changes them.
Orphaning ==
    /\ ~recovery.started
    /\ \/ \E id \in CallerIds \cup {None} :
             begin_transaction(id, FALSE) /\ UNCHANGED <<wrapper, now, recovery>>
       \/ \E op \in OpInputs :
             add_operation(op, FALSE) /\ UNCHANGED <<wrapper, now, recovery>>
       \/ Crash
       \/ \E t \in Targets, c \in Contents : Mutate(t, c)
       \/ \E t \in Targets, b \in Backups : Backup(t, b)

\* Two processes recover the same journal directory at the same time.
NextC == Orphaning \/ \E p \in Procs : SweepSteps(p)

SpecC == Init /\ [][NextC]_vars

\* One process recovers, can die inside the sweep, and its successor
\* recovers again.
NextR == Orphaning \/ SweepSteps("p") \/ SweepCrash("p")

SpecR == Init /\ [][NextR]_vars

\* ------------------------------------------------------------------ claims
\* The backup of an operation is valid: it names a file that exists.
HasBackup(op, files) == op.backup_path # None /\ files[op.backup_path] # Absent

Least(S) == CHOOSE i \in S : \A j \in S : i <= j

\* The step is a call of the named method.
Called(call) == last'.call = call

\* Operations (by registration index, of a batch of n restored in reverse)
\* whose copy met an I/O failure.
FailedCopies(F, n) ==
    { n + 1 - f[3] : f \in { g \in F : g[2] \in {"copy_src", "copy_dst"} } }

\* Registered operations on target t whose backup is valid.
ValidOn(ops, t, files) ==
    { i \in 1..Len(ops) : ops[i].target_path = t /\ HasBackup(ops[i], files) }

\* C1: crash durability. When the process died after begin_transaction
\* returned and before commit or rollback started, between two calls or inside
\* the journal write of add_operation, the recovery run that follows removes
\* the journal of the dead transaction and restores every operation it had
\* registered whose backup exists.
C1_CrashDurability ==
    [][ ( /\ last.call = "crash"
          /\ last.result \in {"between_calls", "add_operation.write"}
          /\ last.id # None
          /\ Called("recover_incomplete_transactions") )
        => /\ logs'[last.id].state = "absent"
           /\ \A i \in 1..Len(last.ops) :
                 HasBackup(last.ops[i], fs)
                 => \E k \in 1..Len(last'.attempts) :
                        last'.attempts[k] = Attempt(last.id, last.ops[i], TRUE) ]_vars

\* C2 (as stated): after a rollback_transaction that met no I/O failure, every
\* target whose operation had a valid backup is byte-identical to the backup
\* of that operation, and the journal file is gone.
C2_EveryTargetEqualsItsBackup ==
    [][ ( /\ Called("rollback_transaction")
          /\ last'.result \in {"True", "False"}
          /\ last'.faults = {} )
        => /\ logs'[current_transaction_id].state = "absent"
           /\ \A i \in 1..Len(operations) :
                 HasBackup(operations[i], fs)
                 => fs'[operations[i].target_path] = fs'[operations[i].backup_path] ]_vars

\* C2 (amended): after rollback_transaction returns, the journal file is gone
\* and every target with a validly backed-up operation, none of whose copies
\* failed, is byte-identical to the backup of the earliest registered of
\* those operations.
C2_TargetEqualsEarliestBackup ==
    [][ ( /\ Called("rollback_transaction")
          /\ last'.result \in {"True", "False"} )
        => /\ logs'[current_transaction_id].state = "absent"
           /\ \A t \in Targets :
                 LET valid == ValidOn(operations, t, fs)
                 IN ( /\ valid # {}
                      /\ valid \cap FailedCopies(last'.faults, Len(operations)) = {} )
                    => /\ fs'[t] = fs[operations[Least(valid)].backup_path]
                       /\ fs'[operations[Least(valid)].backup_path]
                            = fs[operations[Least(valid)].backup_path] ]_vars

\* C2 witness: a rollback of two operations on A, the first with a missing
\* backup, left A equal to the backup of the second.
C2_Witness ==
    /\ last.call = "rollback_transaction"
    /\ last.result = "False"
    /\ Len(last.attempts) = 2
    /\ last.attempts[1].target_path = "A" /\ last.attempts[1].ok
    /\ last.attempts[2].target_path = "A" /\ ~last.attempts[2].ok
    /\ last.faults = {}
    /\ fs[last.attempts[2].backup_path] = Absent
    /\ fs["A"] = fs[last.attempts[1].backup_path]
    /\ fs["A"] = "old"
    /\ logs[last.id].state = "absent"

\* C3: rollback_transaction calls _rollback_operation on the registered
\* operations in exactly the reverse of their registration order, and when
\* two of them share a target and have different, existing backups, the
\* target ends with the content of the backup of the one registered first
\* (unless the copy of that backup itself met an I/O failure).
C3_RollbackIsLIFO ==
    [][ Called("rollback_transaction") /\ last'.result # "RuntimeError"
        => LET n == Len(operations)
           IN /\ Len(last'.attempts) = n
              /\ \A k \in 1..n :
                    /\ last'.attempts[k].target_path = operations[n + 1 - k].target_path
                    /\ last'.attempts[k].backup_path = operations[n + 1 - k].backup_path
              /\ \A i, j \in 1..n :
                    ( /\ i < j
                      /\ operations[i].target_path = operations[j].target_path
                      /\ operations[i].backup_path # operations[j].backup_path
                      /\ HasBackup(operations[i], fs)
                      /\ HasBackup(operations[j], fs)
                      /\ i \notin FailedCopies(last'.faults, n)
                      /\ \A h \in 1..(i - 1) :
                            operations[h].target_path # operations[i].target_path )
                    => fs'[operations[i].target_path] = fs[operations[i].backup_path] ]_vars

\* C3 witness: two operations on A with backups of different content were
\* rolled back, the later registered first, and A holds the first one's backup.
C3_Witness ==
    /\ last.call = "rollback_transaction"
    /\ last.result = "True"
    /\ Len(last.ops) = 2
    /\ last.ops[1].target_path = "A" /\ last.ops[2].target_path = "A"
    /\ last.attempts[1].backup_path = last.ops[2].backup_path
    /\ last.attempts[2].backup_path = last.ops[1].backup_path
    /\ fs[last.ops[1].backup_path] # fs[last.ops[2].backup_path]
    /\ fs["A"] = fs[last.ops[1].backup_path]

\* C4: after a commit_transaction that returns true, every operation of the
\* transaction has completed = true, the journal file is gone and no target
\* or backup file was modified.
C4_CommitCompletes ==
    [][ Called("commit_transaction") /\ last'.result = "True"
        => /\ Len(last'.ops) = Len(operations)
           /\ \A i \in 1..Len(operations) :
                 /\ last'.ops[i].completed
                 /\ last'.ops[i].target_path = operations[i].target_path
                 /\ last'.ops[i].backup_path = operations[i].backup_path
           /\ logs'[current_transaction_id].state = "absent"
           /\ fs' = fs ]_vars

\* C4 witness: a commit of two operations returned true and its journal is gone.
C4_Witness ==
    /\ last.call = "commit_transaction"
    /\ last.result = "True"
    /\ Len(last.ops) = 2
    /\ \A i \in 1..2 : last.ops[i].completed
    /\ logs[last.id].state = "absent"
    /\ fs["A"] = "new"

\* The calls of _rollback_operation a recovery made for journal id.
AttemptsOf(attempts, id) == SelectSeq(attempts, LAMBDA a : a.id = id)

InSeq(x, seq) == \E k \in 1..Len(seq) : seq[k] = x

\* The incomplete operations journal id holds in the current state.
Incomplete(id) ==
    IF logs[id].state = "valid"
    THEN SelectSeq(logs[id].operations, LAMBDA o : ~o.completed)
    ELSE <<>>

\* No incomplete operation of a journal other than id targets t.
OnlyJournalOn(id, t) ==
    \A other \in Ids \ {id} :
        \A i \in 1..Len(Incomplete(other)) : Incomplete(other)[i].target_path # t

\* C5: recover_incomplete_transactions finds every parseable journal that
\* holds an incomplete operation: it calls _rollback_operation for each of
\* its incomplete operations (restoring those whose backup exists), reports
\* the transaction id and removes the journal file.
C5_OrphanRecovered ==
    [][ Called("recover_incomplete_transactions")
        => \A id \in Ids :
             LET inc == Incomplete(id)
             IN inc # <<>>
                => /\ InSeq(id, last'.recovered)
                   /\ logs'[id].state = "absent"
                   /\ \A i \in 1..Len(inc) :
                         InSeq(Attempt(id, inc[i], HasBackup(inc[i], fs)), last'.attempts)
                   /\ \A t \in Targets :
                         (ValidOn(inc, t, fs) # {} /\ OnlyJournalOn(id, t))
                         => fs'[t] = fs[inc[Least(ValidOn(inc, t, fs))].backup_path] ]_vars

\* C5 witness: after a crash, recovery reported t1, restored A from its
\* backup X (whose content differs from what A held) and left no journal.
C5_Witness ==
    /\ last.call = "recover_incomplete_transactions"
    /\ current_transaction_id = None
    /\ last.recovered = <<"t1">>
    /\ Len(last.ops) = 1 /\ ~last.ops[1].completed
    /\ last.attempts = <<Attempt("t1", last.ops[1], TRUE)>>
    /\ fs[last.ops[1].target_path] = "old"
    /\ fs[last.ops[1].backup_path] = "old"
    /\ \A id \in Ids : logs[id].state = "absent"

\* C6: recovery is LIFO. For every parseable journal the calls of
\* _rollback_operation are made on its incomplete operations in exactly the
\* reverse of their order in the journal, and a target that only one
\* incomplete operation names, with a valid backup, ends with the content of
\* that backup.
C6_RecoveryIsLIFO ==
    [][ Called("recover_incomplete_transactions")
        => \A id \in Ids :
             LET inc == Incomplete(id)
                 n == Len(inc)
                 mine == AttemptsOf(last'.attempts, id)
             IN /\ Len(mine) = n
                /\ \A k \in 1..n :
                      /\ mine[k].target_path = inc[n + 1 - k].target_path
                      /\ mine[k].backup_path = inc[n + 1 - k].backup_path
                /\ \A i \in 1..n :
                      ( /\ HasBackup(inc[i], fs)
                        /\ OnlyJournalOn(id, inc[i].target_path)
                        /\ \A j \in 1..n : j # i => inc[j].target_path # inc[i].target_path )
                      => fs'[inc[i].target_path] = fs[inc[i].backup_path] ]_vars

\* C6 witness: the journal registered an operation on A, then one on B;
\* recovery restored B first, then A, and both hold their backup's content.
C6_Witness ==
    /\ last.call = "recover_incomplete_transactions"
    /\ current_transaction_id = None
    /\ Len(last.ops) = 2
    /\ last.ops[1].target_path = "A" /\ last.ops[2].target_path = "B"
    /\ last.attempts = <<Attempt("t1", last.ops[2], TRUE), Attempt("t1", last.ops[1], TRUE)>>
    /\ fs["A"] = fs[last.ops[1].backup_path]
    /\ fs["B"] = fs[last.ops[2].backup_path]
    /\ fs["A"] # fs["B"]
    /\ logs["t1"].state = "absent"

\* A parseable journal with operations, all of them completed.
FullyCompleted(id) ==
    /\ logs[id].state = "valid"
    /\ logs[id].operations # <<>>
    /\ Incomplete(id) = <<>>

\* C7: a journal in which every operation has completed = true is deleted by
\* recover_incomplete_transactions, no _rollback_operation is called for it,
\* its id is not in the returned list, and when no journal holds an
\* incomplete operation no file changes.
C7_CompletedDiscarded ==
    [][ Called("recover_incomplete_transactions")
        => /\ \A id \in Ids :
                FullyCompleted(id)
                => /\ logs'[id].state = "absent"
                   /\ ~InSeq(id, last'.recovered)
                   /\ AttemptsOf(last'.attempts, id) = <<>>
           /\ ( /\ \E id \in Ids : FullyCompleted(id)
                /\ \A id \in Ids : Incomplete(id) = <<>> )
              => fs' = fs ]_vars

\* C7 witness: recovery read a journal whose one operation (A from X) was
\* completed, deleted it, restored nothing although X differs from A, and
\* returned an empty list.
C7_Witness ==
    /\ last.call = "recover_incomplete_transactions"
    /\ Len(last.ops) = 1 /\ last.ops[1].completed
    /\ last.ops[1].target_path = "A" /\ last.ops[1].backup_path = "X"
    /\ last.recovered = <<>>
    /\ last.attempts = <<>>
    /\ fs["X"] = "old" /\ fs["A"] = "new"
    /\ \A id \in Ids : logs[id].state = "absent"

\* C8: a malformed journal file is skipped by recover_incomplete_transactions:
\* it stays on disk unchanged, no _rollback_operation is called for it and it
\* is not reported; every parseable journal of the directory is still
\* processed (rolled back, reported when it held incomplete operations, and
\* deleted), in whatever order the files are enumerated.
C8_MalformedSkipped ==
    [][ ( /\ Called("recover_incomplete_transactions")
          /\ \E bad \in Ids : logs[bad].state = "malformed" )
        => \A id \in Ids :
             /\ logs[id].state = "malformed"
                => /\ logs'[id] = logs[id]
                   /\ ~InSeq(id, last'.recovered)
                   /\ AttemptsOf(last'.attempts, id) = <<>>
             /\ logs[id].state = "valid"
                => /\ logs'[id].state = "absent"
                   /\ Len(AttemptsOf(last'.attempts, id)) = Len(Incomplete(id))
                   /\ Incomplete(id) # <<>> => InSeq(id, last'.recovered) ]_vars

\* C8 witness: t1.json is malformed and still on disk, while the journal of
\* t2 was rolled back, reported and deleted by the same recovery.
C8_Witness ==
    /\ last.call = "recover_incomplete_transactions"
    /\ logs["t1"].state = "malformed"
    /\ logs["t2"].state = "absent"
    /\ last.recovered = <<"t2">>
    /\ Len(last.attempts) = 1 /\ last.attempts[1].id = "t2" /\ last.attempts[1].ok

\* C9: begin_transaction called while a transaction is active raises the
\* state-conflict error and changes nothing: same transaction id, same
\* in-memory operations, same journal files.
C9_BeginWhileActive ==
    [][ Called("begin_transaction") /\ current_transaction_id # None
        => /\ last'.result = "RuntimeError"
           /\ UNCHANGED <<current_transaction_id, operations, logs, fs>> ]_vars

\* C9 witness: begin_transaction was refused while t1 was active with two
\* registered operations, both in its journal.
C9_Witness ==
    /\ last.call = "begin_transaction"
    /\ last.result = "RuntimeError"
    /\ current_transaction_id = "t1"
    /\ Len(operations) = 2
    /\ logs["t1"] = LogData("t1", operations)

\* A call that returned without raising (for commit: that returned true).
Succeeded(call) ==
    /\ Called(call)
    /\ last'.result \notin {"RuntimeError", "OSError"}
    /\ call = "commit_transaction" => last'.result = "True"

\* C10: add_operation, commit_transaction and rollback_transaction called
\* while the manager is Idle raise the state-conflict error, leave it Idle and
\* change no file; and the manager is a two-state machine driven by its
\* successful calls only: begin succeeds only when Idle and makes it Active,
\* add_operation succeeds only when Active and keeps it Active, commit and
\* rollback succeed only when Active and make it Idle, and nothing else
\* changes the state of a manager (a crash ends the manager).
C10_TwoStateMachine ==
    [][ /\ ( /\ current_transaction_id = None
             /\ \/ Called("add_operation")
                \/ Called("commit_transaction")
                \/ Called("rollback_transaction") )
           => /\ last'.result = "RuntimeError"
              /\ UNCHANGED <<current_transaction_id, operations, logs, fs>>
        /\ Succeeded("begin_transaction")
           => current_transaction_id = None /\ current_transaction_id' # None
        /\ Succeeded("add_operation")
           => current_transaction_id # None /\ UNCHANGED current_transaction_id
        /\ (Succeeded("commit_transaction") \/ Succeeded("rollback_transaction"))
           => current_transaction_id # None /\ current_transaction_id' = None
        /\ (current_transaction_id = None /\ current_transaction_id' # None)
           => Succeeded("begin_transaction")
        /\ (current_transaction_id # None /\ current_transaction_id' = None)
           => \/ Succeeded("commit_transaction")
              \/ Succeeded("rollback_transaction")
              \/ Called("crash") ]_vars

\* C11: when the journal write or the journal deletion fails during
\* commit_transaction, the call returns false without raising and the manager
\* is Idle afterwards (no current transaction, no operations held), so that a
\* following begin_transaction is accepted.
C11_CommitFailureClears ==
    [][ ( /\ Called("commit_transaction")
          /\ current_transaction_id # None
          /\ last'.faults # {} )
        => /\ last'.result = "False"
           /\ current_transaction_id' = None
           /\ operations' = <<>> ]_vars

\* C12: a rollback_transaction that returns, returns true exactly when every
\* registered operation was restored from an existing backup: false when one
\* operation has no backup path, a backup file missing on disk or a copy that
\* failed, true for a transaction with no operations.
C12_RollbackReturnValue ==
    [][ ( /\ Called("rollback_transaction")
          /\ last'.result \in {"True", "False"} )
        => LET n == Len(operations)
               restored(i) == /\ operations[i].backup_path # None
                              /\ fs[operations[i].backup_path] # Absent
                              /\ i \notin FailedCopies(last'.faults, n)
                              /\ fs'[operations[i].backup_path] = fs[operations[i].backup_path]
           IN /\ (last'.result = "True") <=> (\A i \in 1..n : restored(i))
              /\ \A k \in 1..n : last'.attempts[k].ok <=> restored(n + 1 - k) ]_vars

\* C12 witness: of two registered operations the one registered first has no
\* backup path; the other was restored, and rollback returned false.
C12_Witness ==
    /\ last.call = "rollback_transaction"
    /\ last.result = "False"
    /\ last.faults = {}
    /\ Len(last.attempts) = 2
    /\ last.attempts[1].ok
    /\ last.attempts[2].backup_path = None /\ ~last.attempts[2].ok
    /\ fs[last.attempts[1].target_path] = fs[last.attempts[1].backup_path]

\* C13: restoration is best-effort. rollback_transaction calls
\* _rollback_operation for every registered operation and
\* recover_incomplete_transactions for every incomplete operation of every
\* journal it could read, whatever the outcome of the other calls of the
\* batch; and a rollback_transaction whose journal deletion does not itself
\* fail deletes the journal and leaves the manager Idle however many
\* restorations failed.
C13_BestEffort ==
    [][ /\ ( Called("rollback_transaction") /\ current_transaction_id # None )
           => /\ Len(last'.attempts) = Len(operations)
              /\ Fault(current_transaction_id, "unlink", 0) \notin last'.faults
                 => /\ logs'[current_transaction_id].state = "absent"
                    /\ current_transaction_id' = None
                    /\ operations' = <<>>
        /\ Called("recover_incomplete_transactions")
           => \A id \in Ids :
                 ( /\ logs[id].state = "valid"
                   /\ Fault(id, "read", 0) \notin last'.faults )
                 => Len(AttemptsOf(last'.attempts, id)) = Len(Incomplete(id)) ]_vars

\* C13 witness: the first restoration of a rollback of two operations failed
\* in its copy, the second one was still made and succeeded, the journal is
\* gone and the manager is Idle.
C13_Witness ==
    /\ last.call = "rollback_transaction"
    /\ last.result = "False"
    /\ Len(last.attempts) = 2
    /\ ~last.attempts[1].ok /\ last.attempts[2].ok
    /\ \E k \in {"copy_src", "copy_dst"} : Fault(last.id, k, 1) \in last.faults
    /\ fs[last.attempts[2].target_path] = fs[last.attempts[2].backup_path]
    /\ current_transaction_id = None
    /\ logs[last.id].state = "absent"

\* C14: a with_transaction-wrapped call begins a transaction, runs func,
\* commits when func returns normally and then returns, and when func raises E
\* it calls rollback_transaction and then raises E itself, whatever the
\* outcome of the rollback (true, false, or a failed journal deletion).
C14_WrapperReraises ==
    [][ /\ (wrapper.pc = "out" /\ wrapper'.pc = "work")
           => /\ Called("begin_transaction")
              /\ current_transaction_id' = last'.id
        /\ (wrapper.pc = "work" /\ wrapper'.pc = "out")
           => \/ /\ Called("commit_transaction")
                 /\ wrapper'.outcome = "returned"
              \/ /\ Called("rollback_transaction")
                 /\ Len(last'.attempts) = Len(operations)
                 /\ wrapper'.outcome = "E" ]_vars

\* C15: begin_transaction persists the record before returning: when it has
\* returned, the file <id>.json holds the record with an empty operation
\* list; and when the process died right after (the journal still holds the
\* empty list), the next recover_incomplete_transactions reads that file,
\* deletes it, calls _rollback_operation for none of its operations and does
\* not report the id.
C15_BeginPersists ==
    [][ /\ Succeeded("begin_transaction")
           => logs'[last'.id] = LogData(last'.id, <<>>)
        /\ ( /\ last.call = "begin_transaction"
             /\ last.result \notin Raised
             /\ Called("crash") /\ last'.result = "between_calls" )
           => /\ last'.id = last.id
              /\ logs'[last.id] = LogData(last.id, <<>>)
        /\ ( /\ last.call = "crash" /\ last.result = "between_calls"
             /\ last.id # None
             /\ logs[last.id] = LogData(last.id, <<>>)
             /\ Called("recover_incomplete_transactions") )
           => /\ InSeq(last.id, last'.read)
              /\ logs'[last.id].state = "absent"
              /\ AttemptsOf(last'.attempts, last.id) = <<>>
              /\ ~InSeq(last.id, last'.recovered)
              /\ (\A id \in Ids : Incomplete(id) = <<>>) => fs' = fs ]_vars

\* C15 witness: recovery read the journal of t1, which held no operation,
\* restored and reported nothing, and no journal is left.
C15_Witness ==
    /\ last.call = "recover_incomplete_transactions"
    /\ last.read = <<"t1">>
    /\ last.ops = <<>>
    /\ last.attempts = <<>>
    /\ last.recovered = <<>>
    /\ current_transaction_id = None
    /\ \A id \in Ids : logs[id].state = "absent"

\* C16: a journal write never leaves a half-written file visible: in every
\* state, also after a crash inside _save_transaction_log, each file <id>.json
\* is absent or a complete snapshot that a reader parses.
C16_NoHalfWrittenJournal ==
    \A id \in Ids :
        \/ logs[id] = NoFile
        \/ /\ logs[id].state = "valid"
           /\ logs[id].transaction_id = id

\* C17: the journal mirrors memory. In every state between two calls, if the
\* manager is Active the file <id>.json exists and its operation list
\* (targets, backups and completed flags, in order) equals the in-memory list;
\* and when a commit_transaction or rollback_transaction has left the manager
\* Idle, the journal of the transaction it finished does not exist.
C17_JournalMirrorsMemory ==
    /\ current_transaction_id # None
       => logs[current_transaction_id] = LogData(current_transaction_id, operations)
    /\ ( /\ current_transaction_id = None
         /\ last.call \in {"commit_transaction", "rollback_transaction"}
         /\ last.id # None )
       => logs[last.id].state = "absent"

\* C18: completed is true only for operations covered by a commit_transaction
\* that returned true: no operation of a still-active transaction, in memory
\* or in its journal file, has completed = true, also after a
\* commit_transaction that returned false.
C18_CompletedOnlyByCommit ==
    current_transaction_id # None
    => /\ \A i \in 1..Len(operations) : ~operations[i].completed
       /\ \A i \in 1..Len(logs[current_transaction_id].operations) :
             ~logs[current_transaction_id].operations[i].completed

\* Two records of the same operation, whatever their completed flags.
SameOperation(a, b) ==
    /\ a.operation_type = b.operation_type
    /\ a.target_path = b.target_path
    /\ a.backup_path = b.backup_path

\* The list held earlier is kept, in order, at the head of the later list.
IsPrefix(earlier, later) ==
    /\ Len(earlier) <= Len(later)
    /\ \A i \in 1..Len(earlier) : SameOperation(earlier[i], later[i])

\* While a transaction stays active its in-memory operation list only grows
\* at the end.
MemoryAppendOnly ==
    [][ (current_transaction_id # None /\ current_transaction_id' = current_transaction_id)
        => IsPrefix(operations, operations') ]_vars

\* C19: while a transaction is active its operation list is append-only, in
\* memory and in the journal file: across every step that leaves the same
\* transaction active, the list held before is a prefix of the list held
\* after, so that every operation the journal file held is still in the
\* journal file, at the same position; none is removed or reordered.
C19_AppendOnly ==
    [][ (current_transaction_id # None /\ current_transaction_id' = current_transaction_id)
        => /\ IsPrefix(operations, operations')
           /\ logs[current_transaction_id].operations # <<>>
              => /\ logs'[current_transaction_id].state = "valid"
                 /\ IsPrefix(logs[current_transaction_id].operations,
                             logs'[current_transaction_id].operations) ]_vars

\* C20: the value returned by recover_incomplete_transactions tells a
\* transaction whose incomplete operations were all restored from one with a
\* failed restoration. The value is the list of recovered ids, in which a
\* fully restored transaction is listed; so a transaction with a failed
\* restoration (missing backup or failed copy) is not listed like one.
C20_RecoveryReportsFailures ==
    [][ Called("recover_incomplete_transactions")
        => \A k \in 1..Len(last'.recovered) :
              LET mine == AttemptsOf(last'.attempts, last'.recovered[k])
              IN \A i \in 1..Len(mine) : mine[i].ok ]_vars

\* Targets for which a batch of operations holds no operation with a valid
\* backup.
Unbacked(ops, files) == { t \in Targets : ValidOn(ops, t, files) = {} }

\* C21: restoring an operation whose backup path is absent or whose backup
\* file is missing on disk is a no-op on the file system. In
\* rollback_transaction and in recover_incomplete_transactions every backup
\* file keeps its content, and so does every target for which the batch holds
\* no operation with an existing backup.
C21_MissingBackupNoOp ==
    [][ /\ ( Called("rollback_transaction") /\ current_transaction_id # None )
           => /\ \A b \in Backups : fs'[b] = fs[b]
              /\ \A t \in Unbacked(operations, fs) : fs'[t] = fs[t]
              /\ \A k \in 1..Len(last'.attempts) :
                    ~HasBackup(last'.attempts[k], fs) => ~last'.attempts[k].ok
        /\ Called("recover_incomplete_transactions")
           => /\ \A b \in Backups : fs'[b] = fs[b]
              /\ \A t \in Targets :
                    (\A id \in Ids : t \in Unbacked(Incomplete(id), fs))
                    => fs'[t] = fs[t] ]_vars

\* C21 witness: the only operation rolled back names a backup file that is
\* missing; its target, which the caller had modified, kept its content.
C21_Witness ==
    /\ last.call = "rollback_transaction"
    /\ last.result = "False"
    /\ Len(last.attempts) = 1
    /\ last.attempts[1].backup_path # None
    /\ fs[last.attempts[1].backup_path] = Absent
    /\ ~last.attempts[1].ok
    /\ fs[last.attempts[1].target_path] = "new"

\* C22: for a journal that mixes completed and incomplete operations,
\* recover_incomplete_transactions calls _rollback_operation for its
\* operations with completed = false only, in the reverse of their order in
\* the journal, and the target of a completed operation that no incomplete
\* operation names keeps its content.
C22_MixedJournal ==
    [][ Called("recover_incomplete_transactions")
        => \A id \in Ids :
             ( /\ logs[id].state = "valid"
               /\ Fault(id, "read", 0) \notin last'.faults )
             => LET inc == Incomplete(id)
                    n == Len(inc)
                    mine == AttemptsOf(last'.attempts, id)
                IN /\ Len(mine) = n
                   /\ \A k \in 1..n :
                         /\ mine[k].target_path = inc[n + 1 - k].target_path
                         /\ mine[k].backup_path = inc[n + 1 - k].backup_path
                   /\ \A i \in 1..Len(logs[id].operations) :
                         LET op == logs[id].operations[i]
                         IN ( /\ op.completed
                              /\ \A other \in Ids :
                                    \A j \in 1..Len(Incomplete(other)) :
                                        Incomplete(other)[j].target_path # op.target_path )
                            => fs'[op.target_path] = fs[op.target_path] ]_vars

\* C22 witness: recovery read a journal whose first operation (on A) was
\* completed and whose second (on B) was not; it restored B only, and A still
\* differs from its existing backup.
C22_Witness ==
    /\ last.call = "recover_incomplete_transactions"
    /\ Len(last.ops) = 2
    /\ last.ops[1].completed /\ ~last.ops[2].completed
    /\ last.ops[1].target_path = "A" /\ last.ops[2].target_path = "B"
    /\ Len(last.read) = 1
    /\ last.attempts = <<Attempt(last.read[1], last.ops[2], TRUE)>>
    /\ fs["B"] = fs[last.ops[2].backup_path]
    /\ fs[last.ops[1].backup_path] # Absent
    /\ fs["A"] # fs[last.ops[1].backup_path]

\* C23: the start_time stored in a transaction's journal is the creation time
\* of the transaction: begin_transaction stores the time of the call, and
\* every rewrite of the journal during the same transaction (add_operation,
\* commit_transaction) stores the start_time the journal held before.
C23_StartTimeIsCreationTime ==
    [][ /\ Succeeded("begin_transaction")
           => logs'[last'.id].start_time = now
        /\ ( /\ current_transaction_id # None
             /\ logs[current_transaction_id].state = "valid"
             /\ logs'[current_transaction_id].state = "valid"
             /\ Called("add_operation") \/ Called("commit_transaction") )
           => logs'[current_transaction_id].start_time
                = logs[current_transaction_id].start_time ]_vars

\* C24: a journal write failure in begin_transaction or add_operation is
\* raised to the caller and leaves the manager as it was before the call:
\* after a failed begin_transaction the manager is still Idle, and after a
\* failed add_operation the in-memory list does not hold the rejected
\* operation.
C24_WriteFailureLeavesState ==
    [][ ( /\ Called("begin_transaction") \/ Called("add_operation")
          /\ last'.faults # {} )
        => /\ last'.result = "OSError"
           /\ UNCHANGED <<current_transaction_id, operations>> ]_vars

\* C25: recover_incomplete_transactions called on a manager that has an
\* active transaction does not touch that transaction: it calls
\* _rollback_operation for none of its operations, leaves its journal file as
\* it is and does not report its id.
C25_RecoverySparesActive ==
    [][ ( /\ Called("recover_incomplete_transactions")
          /\ current_transaction_id # None )
        => /\ logs'[current_transaction_id] = logs[current_transaction_id]
           /\ AttemptsOf(last'.attempts, current_transaction_id) = <<>>
           /\ ~InSeq(current_transaction_id, last'.recovered)
           /\ ~InSeq(current_transaction_id, last'.read) ]_vars

\* C26: every journal file is uniform in its completed flags: in every state
\* reached by begin_transaction, add_operation, commit_transaction and
\* rollback_transaction calls, failed ones included, each parseable journal
\* has all its operations completed = false or all completed = true.
C26_UniformFlags ==
    \A id \in Ids :
        logs[id].state = "valid"
        => \/ \A i \in 1..Len(logs[id].operations) : logs[id].operations[i].completed
           \/ \A i \in 1..Len(logs[id].operations) : ~logs[id].operations[i].completed

\* Every incomplete operation journal id held before the step is still in
\* it, incomplete, after the step.
EvidenceKept(id) ==
    /\ logs'[id].state = "valid"
    /\ \A i \in 1..Len(logs[id].operations) :
          ~logs[id].operations[i].completed
          => /\ i <= Len(logs'[id].operations)
             /\ SameOperation(logs[id].operations[i], logs'[id].operations[i])
             /\ ~logs'[id].operations[i].completed

\* C27: no evidence of unfinished work is lost. A call of the manager removes
\* or overwrites a journal file that holds an incomplete operation only when
\* it attempted the restoration of its incomplete operations
\* (rollback_transaction, recover_incomplete_transactions) or committed that
\* transaction; in particular begin_transaction with the id of an orphaned
\* journal keeps that journal's operations.
C27_NoEvidenceLost ==
    [][ ~Called("crash")
        => \A id \in Ids :
             (Incomplete(id) # <<>> /\ ~EvidenceKept(id))
             => \/ /\ Called("rollback_transaction")
                   /\ id = current_transaction_id
                   /\ Len(last'.attempts) = Len(operations)
                \/ /\ Called("recover_incomplete_transactions")
                   /\ Len(AttemptsOf(last'.attempts, id)) = Len(Incomplete(id))
                \/ /\ Called("commit_transaction")
                   /\ id = current_transaction_id ]_vars

\* C28: whenever a with_transaction-wrapped call has finished, by returning
\* or by raising, the global manager is Idle and the journal of the call's
\* transaction is gone, for every outcome of the wrapped work and of the
\* journal I/O; the next wrapped call can begin its own transaction.
C28_WrapperLeavesIdle ==
    (wrapper.pc = "out" /\ wrapper.outcome # "none")
    => /\ current_transaction_id = None
       /\ operations = <<>>
       /\ \A id \in Ids : logs[id] = NoFile

\* The journals with an incomplete operation in directory lg.
Orphans(lg) ==
    { id \in Ids : /\ lg[id].state = "valid"
                   /\ \E i \in 1..Len(lg[id].operations) :
                         ~lg[id].operations[i].completed }

\* The contents of the existing backups that the incomplete operations of
\* the journals of lg name for target t.
BackupContents(lg, files, t) ==
    { files[b] : b \in { c \in Backups :
          /\ files[c] # Absent
          /\ \E id \in Orphans(lg) : \E i \in 1..Len(lg[id].operations) :
                /\ ~lg[id].operations[i].completed
                /\ lg[id].operations[i].target_path = t
                /\ lg[id].operations[i].backup_path = c } }

\* Both processes returned from recover_incomplete_transactions.
BothDone == \A p \in Procs : Sweep(p).pc = "done"

\* The processes whose returned list holds id.
Reporters(id) ==
    { p \in Procs : \E i \in 1..Len(Sweep(p).recovered) : Sweep(p).recovered[i] = id }

\* C29 as stated: when two processes ran recover_incomplete_transactions on
\* the same directory, each orphaned id is in the list of exactly one of
\* them, and every target with an existing backup equals a backup of its.
C29_ExactlyOneReports ==
    BothDone
    => /\ \A id \in Orphans(recovery.start.logs) : Cardinality(Reporters(id)) = 1
       /\ \A t \in Targets :
             BackupContents(recovery.start.logs, recovery.start.fs, t) # {}
             => fs[t] \in BackupContents(recovery.start.logs, recovery.start.fs, t)

\* C29: when two processes ran recover_incomplete_transactions on the same
\* directory, under every interleaving each orphaned id is in the list of at
\* least one of them (of both when both read the journal before either
\* deleted it), every orphaned journal is gone, and every target whose
\* incomplete operations name existing backups of one content holds it.
C29_AtLeastOneReports ==
    BothDone
    => /\ \A id \in Orphans(recovery.start.logs) :
             Reporters(id) # {} /\ logs[id] = NoFile
       /\ \A t \in Targets :
             Cardinality(BackupContents(recovery.start.logs, recovery.start.fs, t)) = 1
             => fs[t] \in BackupContents(recovery.start.logs, recovery.start.fs, t)

\* C29 witness: both processes returned, both report t1, and target A, which
\* the dead writer had changed, holds its backup's content again.
C29_Witness ==
    /\ BothDone
    /\ Reporters("t1") = Procs
    /\ BackupContents(recovery.start.logs, recovery.start.fs, "A") = {fs["A"]}
    /\ recovery.start.fs["A"] # fs["A"]

\* What one uninterrupted recover_incomplete_transactions leaves of the
\* directory and the files of start, for each order of the glob.
Uninterrupted(start) ==
    { [logs |-> st.logs, fs |-> st.fs] :
        st \in { RecoverEach(order, 1,
                     [logs |-> start.logs, fs |-> start.fs, ops |-> <<>>,
                      attempts |-> <<>>, recovered |-> <<>>, read |-> <<>>], {}) :
                 order \in GlobOrdersOf(start.logs) } }

\* C30: recovery is restartable. When a sweep returned, after an earlier
\* sweep died at any of its statements or after none did, the
\* files and the journal directory are what one uninterrupted run on the
\* directory and files of the start leaves.
C30_Restartable ==
    Sweep("p").pc = "done"
    => [logs |-> logs, fs |-> fs] \in Uninterrupted(recovery.start)

\* C30 witness: a sweep died inside a copy, leaving a target half written;
\* the next sweep returned, the journal of t1 is gone and target A, which
\* the dead writer had changed, holds its backup's content.
C30_Witness ==
    /\ Sweep("p").pc = "done"
    /\ recovery.restarts = 1
    /\ recovery.died = "copy"
    /\ "t1" \in Orphans(recovery.start.logs)
    /\ logs["t1"] = NoFile
    /\ BackupContents(recovery.start.logs, recovery.start.fs, "A") = {fs["A"]}
    /\ recovery.start.fs["A"] # fs["A"]

====
